---- MODULE Spec2Model ----
(***************************************************************************)
(* Streaming adapters of src/src/raw.rs around the miniz codec engine:     *)
(* EncoderWriter / DecoderWriter (push), EncoderReader / DecoderReader     *)
(* (pull), and the shared Stream wrapper with its read and write pumps.    *)
(***************************************************************************)
EXTENDS Integers, Sequences, FiniteSets, TLC

(***************************************************************************)
(* Bounds of the model.                                                    *)
(***************************************************************************)
MaxLen == 2        \* longest plain byte sequence handed to an encoder
MaxCap == 3        \* largest capacity of the adapter's buffer
MaxInto == 2       \* largest caller buffer handed to read
MaxFlush == 2      \* flush calls made on one push adapter

Min(a, b) == IF a < b THEN a ELSE b

Bytes == {1, 2}    \* plain bytes the caller may write

(***************************************************************************)
(* The codec engine (miniz behind ffi::mz_deflate / ffi::mz_inflate).      *)
(* Wire format of the engine: an optional header byte, one code per plain  *)
(* byte, a marker after each sync flush, an end-of-stream code and, unless *)
(* raw, a checksum trailer.                                                *)
(***************************************************************************)
HDR == 20
SYNCM == 30
EOS == 40
TRL == 50
BAD == 99
CkMod == 2
BlockSize == 2     \* plain bytes the deflate engine holds back before it emits a block

Enc(b) == b + 10
Dec(c) == c - 10
Codes == {Enc(b) : b \in Bytes}
Trailer(sum) == TRL + sum

EncSeq(s) == [i \in 1..Len(s) |-> Enc(s[i])]

\* mz_deflateInit2 / mz_inflateInit2: the engine state behind a fresh handle.
EngineInit(kind, isRaw) ==
    [flavor |-> kind, raw |-> isRaw, total_in |-> 0, total_out |-> 0,
     hdr |-> isRaw, held |-> <<>>, pend |-> <<>>, synced |-> TRUE,
     fin |-> FALSE, sum |-> 0,
     phase |-> IF kind = "Inflate" THEN (IF isRaw THEN "body" ELSE "hdr") ELSE "none"]

\* The block the deflate engine emits for the plain bytes it holds back.
EmitBlock(s) ==
    [s EXCEPT !.pend = @ \o (IF s.hdr THEN <<>> ELSE <<HDR>>) \o EncSeq(s.held),
              !.hdr = TRUE, !.held = <<>>]

EmitSync(s) ==
    LET b == EmitBlock(s) IN [b EXCEPT !.pend = @ \o <<SYNCM>>, !.synced = TRUE]

EmitFinish(s) ==
    LET b == EmitBlock(s)
    IN [b EXCEPT !.pend = @ \o <<EOS>> \o (IF s.raw THEN <<>> ELSE <<Trailer(s.sum)>>),
                 !.fin = TRUE]

\* mz_deflate moves pending output into the space offered.
Drain(s, out, n) ==
    [s |-> [s EXCEPT !.pend = SubSeq(@, n + 1, Len(@)), !.total_out = @ + n],
     out |-> out \o SubSeq(s.pend, 1, n)]

\* mz_deflate takes one plain byte; a full block is emitted.
TakeByte(s, b) ==
    IF Len(s.held) + 1 = BlockSize
    THEN EmitBlock([s EXCEPT !.held = Append(@, b), !.total_in = @ + 1,
                             !.synced = FALSE, !.sum = (@ + b) % CkMod])
    ELSE [s EXCEPT !.held = Append(@, b), !.total_in = @ + 1,
                   !.synced = FALSE, !.sum = (@ + b) % CkMod]

\* One call of mz_deflate: drain pending output into the space offered, take
\* input while output is not blocked, then honour the flush mode.
RECURSIVE DeflLoop(_, _, _, _, _)
DeflNext(d, in, avail, flush) ==
    IF d.s.pend # <<>> THEN d
    ELSE IF in # <<>> /\ ~d.s.fin
         THEN DeflLoop(TakeByte(d.s, Head(in)), Tail(in), d.out, avail, flush)
    ELSE IF flush = "MZ_SYNC_FLUSH" /\ ~d.s.synced /\ ~d.s.fin
         THEN DeflLoop(EmitSync(d.s), in, d.out, avail, flush)
    ELSE IF flush = "MZ_FINISH" /\ ~d.s.fin
         THEN DeflLoop(EmitFinish(d.s), in, d.out, avail, flush)
    ELSE d

DeflLoop(s, in, out, avail, flush) ==
    DeflNext(Drain(s, out, Min(Len(s.pend), avail - Len(out))), in, avail, flush)

\* The status mz_deflate returns.
DeflStatus(s, r, flush) ==
    [s |-> r.s, out |-> r.out,
     ret |-> IF r.s.fin /\ r.s.pend = <<>> /\ flush = "MZ_FINISH" THEN "MZ_STREAM_END"
             ELSE IF r.s.total_in # s.total_in \/ r.s.total_out # s.total_out THEN "MZ_OK"
             ELSE "MZ_BUF_ERROR"]

mz_deflate(s, in, avail, flush) ==
    DeflStatus(s, DeflLoop(s, in, <<>>, avail, flush), flush)

\* mz_inflate consumes one byte of input.
Taken(s) == [s EXCEPT !.total_in = @ + 1]
Failed(s, out) == [s |-> [s EXCEPT !.total_in = @ + 1, !.phase = "failed"], out |-> out]

\* One call of mz_inflate: decode codes while there is input and output space.
RECURSIVE InflLoop(_, _, _, _)
InflByte(s, b, rest, out, avail) ==
    CASE s.phase = "hdr" ->
           IF b = HDR
           THEN InflLoop([Taken(s) EXCEPT !.phase = "body"], rest, out, avail)
           ELSE Failed(s, out)
      [] s.phase = "body" /\ b \in Codes ->
           IF Len(out) < avail
           THEN InflLoop([Taken(s) EXCEPT !.total_out = @ + 1,
                                          !.sum = (@ + Dec(b)) % CkMod],
                         rest, Append(out, Dec(b)), avail)
           ELSE [s |-> s, out |-> out]
      [] s.phase = "body" /\ b = SYNCM -> InflLoop(Taken(s), rest, out, avail)
      [] s.phase = "body" /\ b = EOS ->
           InflLoop([Taken(s) EXCEPT !.phase = IF s.raw THEN "done" ELSE "trailer"],
                    rest, out, avail)
      [] s.phase = "trailer" /\ b = Trailer(s.sum) ->
           [s |-> [Taken(s) EXCEPT !.phase = "done"], out |-> out]
      [] OTHER -> Failed(s, out)

InflLoop(s, in, out, avail) ==
    IF s.phase \in {"done", "failed"} \/ in = <<>> THEN [s |-> s, out |-> out]
    ELSE InflByte(s, Head(in), Tail(in), out, avail)

\* The stream is truncated: the caller said with MZ_FINISH that no more input
\* will come, every byte offered was consumed and the stream has not ended.
Truncated(s, r, offered, flush) ==
    /\ flush = "MZ_FINISH"
    /\ r.s.phase \notin {"done", "failed"}
    /\ r.s.total_in - s.total_in = offered

\* The status mz_inflate returns; malformed and truncated input are both
\* reported as data corruption.
InflStatus(s, r, offered, flush) ==
    [s |-> IF Truncated(s, r, offered, flush) THEN [r.s EXCEPT !.phase = "failed"]
           ELSE r.s,
     out |-> r.out,
     ret |-> IF r.s.phase = "failed" \/ Truncated(s, r, offered, flush)
             THEN "MZ_DATA_ERROR"
             ELSE IF r.s.phase = "done" THEN "MZ_STREAM_END"
             ELSE IF (r.s.total_in # s.total_in \/ r.s.total_out # s.total_out)
                     /\ flush # "MZ_FINISH" THEN "MZ_OK"
             ELSE "MZ_BUF_ERROR"]

mz_inflate(s, in, avail, flush) ==
    InflStatus(s, InflLoop(s, in, <<>>, avail), Len(in), flush)

\* The engine entry point an adapter passes as `f`.
EngineStep(s, in, avail, flush) ==
    IF s.flavor = "Deflate" THEN mz_deflate(s, in, avail, flush)
    ELSE mz_inflate(s, in, avail, flush)

\* The engine has reached stream-end.
StreamEnded(s) ==
    IF s.flavor = "Deflate" THEN s.fin /\ s.pend = <<>> ELSE s.phase = "done"


(***************************************************************************)
(* The downstream sink (W: Write) and the pump of the push adapters.       *)
(***************************************************************************)
\* writer.write_all(bytes): all the bytes reach the sink, or the call fails.
WriteAll(sink, bytes, fail) ==
    IF fail THEN [ok |-> FALSE, sink |-> sink]
    ELSE [ok |-> TRUE, sink |-> [sink EXCEPT !.data = @ \o bytes]]

\* inner.flush()
SinkFlush(sink, fail) ==
    IF fail THEN [ok |-> FALSE, sink |-> sink]
    ELSE [ok |-> TRUE, sink |-> [sink EXCEPT !.flushed = Len(sink.data)]]

\* into.truncate(0) after the drain; `into` is untouched when it was empty.
AfterDrain(into) == IF Len(into) > 0 THEN <<>> ELSE into

\* set_len with the engine's running total instead of what this step produced:
\* the Vec then covers bytes the engine never wrote (shown as 0).
SetLenTotal(cur, r) == cur \o r.out \o [i \in 1..(r.s.total_out - Len(r.out)) |-> 0]

\* into.set_len(cur_len + (self.total_out - before_out)): the Vec now covers
\* the bytes the engine wrote behind cur_len.
SetLen(cur, r) == cur \o r.out

\* The rest of Stream::write once the engine has returned r: set_len and the
\* match on the status.
Stepped(s, r, cur, sink) ==
    [res |-> IF r.ret \in {"MZ_OK", "MZ_BUF_ERROR", "MZ_STREAM_END"} THEN "Ok" ELSE "Panic",
     n |-> r.s.total_in - s.total_in,
     s |-> r.s, into |-> SetLen(cur, r), sink |-> sink,
     out |-> r.out, stepped |-> TRUE, ret |-> r.ret]

\* Stream::write that steps the engine before it reports the failed drain.
StepsThenFails(s, data, flush, into, capacity, sink, fail) ==
    IF Len(into) > 0 /\ fail
    THEN [Stepped(s, EngineStep(s, data, capacity - Len(into), flush), into, sink)
              EXCEPT !.res = "Err"]
    ELSE Stepped(s,
                 EngineStep(s, data, capacity - Len(AfterDrain(into)), flush),
                 AfterDrain(into),
                 IF Len(into) > 0 THEN WriteAll(sink, into, FALSE).sink ELSE sink)

\* Stream::write: drain `into` to the writer, then step the engine once.
\*   res      "Ok" (n = bytes consumed), "Err" (the sink's error) or "Panic"
\*   out      the bytes the engine produced in this call
\*   stepped  the engine was called with `flush`
Stream_write(s, data, flush, into, capacity, sink, fail) ==
    IF Len(into) > 0 /\ fail
    THEN [res |-> "Err", n |-> 0, s |-> s, into |-> into, sink |-> sink,
          out |-> <<>>, stepped |-> FALSE, ret |-> "none"]
    ELSE Stepped(s,
                 EngineStep(s, data, capacity - Len(AfterDrain(into)), flush),
                 AfterDrain(into),
                 IF Len(into) > 0 THEN WriteAll(sink, into, FALSE).sink ELSE sink)

\* The rest of do_finish after Stream::write returned w: write_all(&self.buf)
\* and self.buf.truncate(0).
FinishTail(w, a) ==
    IF w.res # "Ok" THEN w
    ELSE IF ~a.ok THEN [w EXCEPT !.res = "Err"]
    ELSE [w EXCEPT !.sink = a.sink, !.into = <<>>]

\* EncoderWriter::do_finish and DecoderWriter::do_finish (the same body).
\* f1 fails the drain inside Stream::write, f2 the write_all of the final bytes.
FinishWrite(w, f2) == FinishTail(w, WriteAll(w.sink, w.into, f2))

do_finish(s, into, capacity, sink, f1, f2) ==
    FinishWrite(Stream_write(s, <<>>, "MZ_FINISH", into, capacity, sink, f1), f2)

\* The rest of flush after Stream::write returned w: write_all(&self.buf) when
\* the buffer is not empty (a), then inner.flush() (fl).
FlushEnd(w, fl) == [w EXCEPT !.res = IF fl.ok THEN "Ok" ELSE "Err", !.sink = fl.sink]

FlushTail(w, a, f3) ==
    IF w.res # "Ok" THEN w
    ELSE IF ~a.ok THEN [w EXCEPT !.res = "Err"]
    ELSE FlushEnd(w, SinkFlush(a.sink, f3))

FlushWrite(w, f2, f3) ==
    FlushTail(w,
              IF Len(w.into) > 0 THEN WriteAll(w.sink, w.into, f2)
              ELSE [ok |-> TRUE, sink |-> w.sink],
              f3)

\* EncoderWriter::flush and DecoderWriter::flush (the same body).
\* f3 fails inner.flush().
flush(s, into, capacity, sink, f1, f2, f3) ==
    FlushWrite(Stream_write(s, <<>>, "MZ_SYNC_FLUSH", into, capacity, sink, f1), f2, f3)

(***************************************************************************)
(* The upstream source (R: Read) and the pump of the pull adapters.        *)
(***************************************************************************)
\* A refill that does not wait for *pos == *cap.
RefillAlways(stage, p, c, src, n) ==
    [stage |-> SubSeq(src, 1, n), pos |-> 0, cap |-> n,
     src |-> SubSeq(src, n + 1, Len(src)), eof |-> n = 0]

\* The refill at the top of the loop of Stream::read, n bytes being what the
\* source delivers: *cap = read(buf), *pos = 0, eof = *cap == 0.
Refill(stage, p, c, src, n) ==
    IF p = c
    THEN [stage |-> SubSeq(src, 1, n), pos |-> 0, cap |-> n,
          src |-> SubSeq(src, n + 1, Len(src)), eof |-> n = 0]
    ELSE [stage |-> stage, pos |-> p, cap |-> c, src |-> src, eof |-> FALSE]

\* A flush mode that never tells the engine the input has ended.
ReadFlushNever(f) == "MZ_NO_FLUSH"

\* The two flush modes the wrong way round.
ReadFlushSwapped(f) == IF f.eof THEN "MZ_NO_FLUSH" ELSE "MZ_FINISH"

\* let flush = if eof {MZ_FINISH} else {MZ_NO_FLUSH}
ReadFlush(f) == IF f.eof THEN "MZ_FINISH" ELSE "MZ_NO_FLUSH"

\* *pos advanced by what the engine produced.
AdvanceByOutput(p, s, r) == p + (r.s.total_out - s.total_out)

\* *pos += (self.total_in - before_in)
Advance(p, s, r) == p + (r.s.total_in - s.total_in)

\* A loop that returns whatever the first step produced.
ReturnsAtOnce(ret, read, eof) ==
    CASE ret \in {"MZ_OK", "MZ_BUF_ERROR", "MZ_STREAM_END"} -> "Ok"
      [] ret = "MZ_DATA_ERROR" -> "Err"
      [] OTHER -> "Panic"

\* A loop that goes round again after every step that produced nothing, the
\* engine's stream-end included.
ContinuesAtEnd(ret, read, eof) ==
    CASE ret \in {"MZ_OK", "MZ_BUF_ERROR", "MZ_STREAM_END"} ->
              IF read = 0 /\ ~eof THEN "Continue" ELSE "Ok"
      [] ret = "MZ_DATA_ERROR" -> "Err"
      [] OTHER -> "Panic"

\* The match on the status at the end of an iteration.
ReadMatch(ret, read, eof) ==
    CASE ret \in {"MZ_OK", "MZ_BUF_ERROR"} ->
              IF read = 0 /\ ~eof THEN "Continue" ELSE "Ok"
      [] ret = "MZ_STREAM_END" -> "Ok"
      [] ret = "MZ_DATA_ERROR" -> "Err"
      [] OTHER -> "Panic"

\* The rest of an iteration once the engine has returned r: the counts and
\* the match on the status.
ReadStatus(s, f, r) ==
    [res |-> ReadMatch(r.ret, r.s.total_out - s.total_out, f.eof),
     err |-> IF r.ret = "MZ_DATA_ERROR" THEN "corrupt" ELSE "none",
     n |-> r.s.total_out - s.total_out,
     s |-> r.s, stage |-> f.stage,
     pos |-> Advance(f.pos, s, r),
     cap |-> f.cap, src |-> f.src, out |-> r.out,
     fed |-> SubSeq(f.stage, f.pos + 1, f.pos + (r.s.total_in - s.total_in)),
     stepped |-> TRUE, flush |-> ReadFlush(f), ret |-> r.ret, eof |-> f.eof]

ReadPump(s, intoLen, f) ==
    ReadStatus(s, f,
               EngineStep(s, SubSeq(f.stage, f.pos + 1, f.cap), intoLen, ReadFlush(f)))

\* Stream::read that resets *pos before the source's error is seen.
RefillFailsLate(s, intoLen, stage, p, c, src, n, fail) ==
    IF p = c /\ fail
    THEN [res |-> "Err", err |-> "io", n |-> 0, s |-> s, stage |-> stage,
          pos |-> 0, cap |-> c, src |-> src, out |-> <<>>, fed |-> <<>>,
          stepped |-> FALSE, flush |-> "none", ret |-> "none", eof |-> FALSE]
    ELSE ReadPump(s, intoLen, Refill(stage, p, c, src, n))

\* Stream::read, one iteration of its loop. `n` is the number of bytes the
\* source delivers if this iteration refills, `fail` makes that refill fail.
\*   res  "Continue" (loop again), "Ok" (n = bytes read), "Err" or "Panic"
\*   fed  the bytes the engine consumed in this iteration
Stream_read(s, intoLen, stage, p, c, src, n, fail) ==
    IF p = c /\ fail
    THEN [res |-> "Err", err |-> "io", n |-> 0, s |-> s, stage |-> stage,
          pos |-> p, cap |-> c, src |-> src, out |-> <<>>, fed |-> <<>>,
          stepped |-> FALSE, flush |-> "none", ret |-> "none", eof |-> FALSE]
    ELSE ReadPump(s, intoLen, Refill(stage, p, c, src, n))

(***************************************************************************)
(* Inputs.                                                                 *)
(***************************************************************************)
SeqsUpTo(S, n) == UNION {[1..k -> S] : k \in 0..n}

Plain == SeqsUpTo(Bytes, MaxLen)

\* The complete stream the deflate engine produces for s.
Encode(s, isRaw) ==
    mz_deflate(EngineInit("Deflate", isRaw), s, (2 * Len(s)) + 4, "MZ_FINISH").out

Prefixes(w) == {SubSeq(w, 1, k) : k \in 0..Len(w)}

Corrupted(w) == {[w EXCEPT ![i] = BAD] : i \in 1..Len(w)}

\* A stream followed by a byte that is not part of it.
Trailed(w) == {w \o <<BAD>>}

\* What a decoder may be fed: whole streams, truncated ones, bit-flipped ones,
\* streams with something behind them, and the garbage of the spec's scenario.
WireInputs(isRaw) ==
    LET whole == {Encode(s, isRaw) : s \in SeqsUpTo(Bytes, MaxLen - 1)}
    IN UNION {Prefixes(w) \cup Corrupted(w) \cup Trailed(w) : w \in whole}

Kinds == {"EncoderWriter", "DecoderWriter", "EncoderReader", "DecoderReader"}
Push == {"EncoderWriter", "DecoderWriter"}
Pull == {"EncoderReader", "DecoderReader"}
FlavorOf(k) == IF k \in {"EncoderWriter", "EncoderReader"} THEN "Deflate" ELSE "Inflate"


(***************************************************************************)
(* State.                                                                  *)
(***************************************************************************)
VARIABLES
    kind,       \* which of the four adapters this is
    stream,     \* Stream: the engine state behind the handle
    buf,        \* push: the output Vec; pull: the valid bytes of the staging slice
    capacity,   \* push: buf.capacity(); pull: buf.len()
    pos, cap,   \* pull: the staging cursors
    inner,      \* push: Option<W> and what the sink holds; pull: what the source still has
    todo,       \* push: the bytes the caller has yet to get accepted
    got,        \* pull: the bytes read calls have returned
    plain,      \* the byte sequence the caller set out to encode
    life,       \* "live", "closing", "unwinding", "fields", "dropped", "aborted"
    pc,         \* pull: "idle", or "loop" inside Stream::read
    intoLen,    \* pull: into.len() of the read call in progress
    res,        \* what the last call returned
    flaky,      \* the source / sink is one that may report I/O errors
    initCount,  \* calls of mz_deflateInit2 / mz_inflateInit2 on the handle
    endCount,   \* calls of mz_deflateEnd / mz_inflateEnd on the handle
    gh          \* history of the run

vars == <<kind, stream, buf, capacity, pos, cap, inner, todo, got, plain, life,
          pc, intoLen, res, flaky, initCount, endCount, gh>>

NoRes == [op |-> "none", kind |-> "Ok", n |-> 0, err |-> "none"]

NoHistory(isPiped) ==
    [produced |-> <<>>, finPumps |-> 0, finishCalled |-> FALSE, finishOk |-> FALSE,
     lenAtFinish |-> 0, dropFinish |-> 0, sinkFailed |-> FALSE, flushes |-> 0,
     panicked |-> FALSE, dataError |-> FALSE, piped |-> isPiped,
     flush |-> "none", ret |-> "none", eof |-> FALSE, endSeen |-> FALSE,
     afterEnd |-> FALSE, looped |-> FALSE, spin |-> FALSE,
     pulled |-> <<>>, fed |-> <<>>]

Endpoint(bytes) == [some |-> TRUE, data |-> bytes, flushed |-> 0]

\* Stream::new followed by the adapter's own field initialisers.
New(k, isRaw, c, input, f, s, isPiped) ==
    /\ kind' = k
    /\ stream' = EngineInit(FlavorOf(k), isRaw)
    /\ buf' = <<>>
    /\ capacity' = c
    /\ pos' = 0
    /\ cap' = 0
    /\ inner' = IF k \in Push THEN Endpoint(<<>>) ELSE Endpoint(input)
    /\ todo' = IF k \in Push THEN input ELSE <<>>
    /\ got' = <<>>
    /\ plain' = s
    /\ life' = "live"
    /\ pc' = "idle"
    /\ intoLen' = 0
    /\ res' = NoRes
    /\ flaky' = f
    /\ initCount' = 1
    /\ endCount' = 0
    /\ gh' = NoHistory(isPiped)

Init ==
    \E k \in Kinds, isRaw \in BOOLEAN, c \in 1..MaxCap :
      \E input \in (IF FlavorOf(k) = "Deflate" THEN Plain ELSE WireInputs(isRaw)) :
        /\ kind = k
        /\ stream = EngineInit(FlavorOf(k), isRaw)
        /\ buf = <<>>
        /\ capacity = c
        /\ pos = 0
        /\ cap = 0
        /\ inner = IF k \in Push THEN Endpoint(<<>>) ELSE Endpoint(input)
        /\ todo = IF k \in Push THEN input ELSE <<>>
        /\ got = <<>>
        /\ plain = IF FlavorOf(k) = "Deflate" THEN input ELSE <<>>
        /\ life = "live"
        /\ pc = "idle"
        /\ intoLen = 0
        /\ res = NoRes
        /\ flaky = TRUE
        /\ initCount = 1
        /\ endCount = 0
        /\ gh = NoHistory(FALSE)


(***************************************************************************)
(* Calls on a push adapter.                                                *)
(***************************************************************************)
\* What a call of a push adapter leaves behind, w being the pump's outcome.
PushReturn(op, w, isFinish) ==
    /\ stream' = w.s
    /\ buf' = w.into
    /\ res' = [op |-> op, kind |-> w.res, n |-> w.n,
               err |-> IF w.res = "Err" THEN "io" ELSE "none"]
    /\ gh' = [gh EXCEPT !.produced = @ \o w.out,
                        !.finPumps = IF isFinish /\ w.stepped THEN @ + 1 ELSE @,
                        !.finishCalled = @ \/ op = "finish",
                        !.finishOk = @ \/ (op = "finish" /\ w.res = "Ok"),
                        !.lenAtFinish = IF op = "finish" THEN Len(w.sink.data) ELSE @,
                        !.dropFinish = IF op = "drop" THEN @ + 1 ELSE @,
                        !.sinkFailed = @ \/ w.res = "Err",
                        !.flushes = IF op = "flush" THEN @ + 1 ELSE @,
                        !.panicked = @ \/ w.res = "Panic",
                        !.dataError = w.ret = "MZ_DATA_ERROR"]
    /\ UNCHANGED <<kind, capacity, pos, cap, got, plain, pc, intoLen, flaky, initCount,
                   endCount>>

\* A write, flush or finish call returns w, `failed` saying whether the sink
\* was made to fail: the caller keeps the input that was not consumed.
Returned(op, w, failed, sinkAfter, lifeAfter, lifePanic) ==
    /\ failed => (flaky /\ w.res = "Err")
    /\ PushReturn(op, w, op \in {"finish", "drop"})
    /\ inner' = sinkAfter
    /\ todo' = SubSeq(todo, w.n + 1, Len(todo))
    /\ life' = IF w.res = "Panic" THEN lifePanic ELSE lifeAfter

WriteReturn(w, f) == Returned("write", w, f, w.sink, "live", "unwinding")

\* EncoderWriter::write / DecoderWriter::write with the first n bytes the
\* caller still has.
Write ==
    /\ life = "live"
    /\ kind \in Push
    /\ \E n \in 0..Len(todo), f \in BOOLEAN :
         WriteReturn(Stream_write(stream, SubSeq(todo, 1, n), "MZ_NO_FLUSH", buf,
                                  capacity, inner, f), f)

FlushReturn(w, f) == Returned("flush", w, f # "none", w.sink, "live", "unwinding")

\* EncoderWriter::flush / DecoderWriter::flush.
Flush ==
    /\ life = "live"
    /\ kind \in Push
    /\ gh.flushes < MaxFlush
    /\ \E f \in {"none", "drain", "final", "sync"} :
         FlushReturn(flush(stream, buf, capacity, inner,
                           f = "drain", f = "final", f = "sync"), f)

\* inner.take() of the consuming finish: the sink leaves the adapter.
TakeInner(sink) == [sink EXCEPT !.some = FALSE]

FinishReturn(w, f) ==
    Returned("finish", w, f # "none",
             IF w.res = "Ok" THEN TakeInner(w.sink) ELSE w.sink, "closing", "unwinding")

\* finish(self): do_finish, and on success the sink is taken out of the
\* adapter; the adapter value is then dropped.
Finish ==
    /\ life = "live"
    /\ kind \in Push
    /\ \E f \in {"none", "drain", "final"} :
         FinishReturn(do_finish(stream, buf, capacity, inner, f = "drain", f = "final"), f)

(***************************************************************************)
(* Teardown.                                                               *)
(***************************************************************************)
\* Drop for EncoderWriter without the match on self.inner.
DropAlwaysFinishes(k, sink) == k = "EncoderWriter"

\* Drop for EncoderWriter runs do_finish when the sink is still held; no
\* other adapter has a Drop impl.
DropRunsFinish(k, sink) == k = "EncoderWriter" /\ sink.some

\* `let _ = self.do_finish()`: whatever it returns is discarded; a panic while
\* already unwinding aborts the process.
DropReturn(w, f) ==
    Returned("drop", w, f # "none", w.sink, "fields",
             IF life = "unwinding" THEN "aborted" ELSE "fields")

\* The adapter value goes out of scope: its Drop impl runs, then its fields
\* are dropped.
DropAdapter ==
    /\ life \in {"live", "closing", "unwinding"}
    /\ pc = "idle"
    /\ IF DropRunsFinish(kind, inner)
       THEN \E f \in {"none", "drain", "final"} :
              DropReturn(do_finish(stream, buf, capacity, inner,
                                   f = "drain", f = "final"), f)
       ELSE /\ life' = "fields"
            /\ res' = [NoRes EXCEPT !.op = "drop"]
            /\ UNCHANGED <<kind, stream, buf, capacity, pos, cap, inner, todo, got,
                           plain, pc, intoLen, flaky, initCount, endCount, gh>>

\* Drop for Stream that never reaches mz_deflateEnd / mz_inflateEnd.
EngineEndSkipped(n) == n

\* mz_deflateEnd / mz_inflateEnd on the handle.
EngineEnd(n) == n + 1

\* Drop for Stream.
DropStream ==
    /\ life = "fields"
    /\ endCount' = EngineEnd(endCount)
    /\ life' = "dropped"
    /\ UNCHANGED <<kind, stream, buf, capacity, pos, cap, inner, todo, got, plain,
                   pc, intoLen, res, flaky, initCount, gh>>


(***************************************************************************)
(* Calls on a pull adapter.                                                *)
(***************************************************************************)
\* EncoderReader::read / DecoderReader::read is entered with a caller buffer
\* of m bytes.
ReadCall ==
    /\ life = "live"
    /\ kind \in Pull
    /\ pc = "idle"
    /\ \E m \in 0..MaxInto : intoLen' = m
    /\ pc' = "loop"
    /\ gh' = [gh EXCEPT !.looped = FALSE]
    /\ UNCHANGED <<kind, stream, buf, capacity, pos, cap, inner, todo, got, plain,
                   life, res, flaky, initCount, endCount>>

\* The iteration r goes round again from the very state it started in.
Spins(r) ==
    /\ r.res = "Continue"
    /\ r.s = stream
    /\ r.stage = buf
    /\ r.pos = pos
    /\ r.cap = cap
    /\ r.src = inner.data

\* An iteration of the loop returns r, or goes round again.
ReadReturn(r, f) ==
    /\ f => (flaky /\ r.res = "Err" /\ r.err = "io")
    /\ stream' = r.s
    /\ buf' = r.stage
    /\ pos' = r.pos
    /\ cap' = r.cap
    /\ inner' = [inner EXCEPT !.data = r.src]
    /\ pc' = IF r.res = "Continue" THEN "loop" ELSE "idle"
    /\ life' = IF r.res = "Panic" THEN "unwinding" ELSE "live"
    /\ got' = IF r.res = "Ok" THEN got \o r.out ELSE got
    /\ res' = IF r.res = "Continue" THEN res
              ELSE [op |-> "read", kind |-> r.res, n |-> r.n, err |-> r.err]
    /\ gh' = [gh EXCEPT !.panicked = @ \/ r.res = "Panic",
                        !.dataError = r.ret = "MZ_DATA_ERROR",
                        !.flush = r.flush,
                        !.ret = r.ret,
                        !.eof = r.eof,
                        !.endSeen = @ \/ r.ret = "MZ_STREAM_END",
                        !.afterEnd = @ \/ (gh.endSeen /\ r.res # "Continue"),
                        !.looped = @ \/ r.res = "Continue",
                        !.spin = @ \/ Spins(r),
                        !.pulled = @ \o SubSeq(inner.data, 1, Len(inner.data) - Len(r.src)),
                        !.fed = @ \o r.fed]
    /\ UNCHANGED <<kind, capacity, todo, plain, intoLen, flaky, initCount, endCount>>

\* What the source may deliver to a refill of `room` bytes: at least one byte
\* while it has any, zero once it is exhausted.
Delivers(room, left) ==
    IF Min(room, left) > 0 THEN 1..Min(room, left) ELSE {0}

\* One iteration of the loop of Stream::read.
ReadStep ==
    /\ life = "live"
    /\ pc = "loop"
    /\ \E n \in (IF pos = cap THEN Delivers(capacity, Len(inner.data)) ELSE {0}),
          f \in BOOLEAN :
         ReadReturn(Stream_read(stream, intoLen, buf, pos, cap, inner.data, n, f), f)

(***************************************************************************)
(* decode(encode(S)): what an EncoderWriter delivered to its sink is handed *)
(* to a fresh decode adapter of the same raw mode.                         *)
(***************************************************************************)
Pipe ==
    /\ life = "dropped"
    /\ kind = "EncoderWriter"
    /\ ~gh.piped
    /\ gh.finishOk
    /\ gh.flushes = 0
    /\ ~gh.sinkFailed
    /\ todo = <<>>
    /\ \E k \in {"DecoderWriter", "DecoderReader"}, c \in 1..MaxCap :
         New(k, stream.raw, c, inner.data, FALSE, plain, TRUE)

Next ==
    \/ Write
    \/ Flush
    \/ Finish
    \/ DropAdapter
    \/ DropStream
    \/ ReadCall
    \/ ReadStep
    \/ Pipe

Spec == Init /\ [][Next]_vars


(***************************************************************************)
(* Properties.                                                             *)
(***************************************************************************)
IsPrefix(a, b) == Len(a) <= Len(b) /\ SubSeq(b, 1, Len(a)) = a

FinishReturnedOk == res.op = "finish" /\ res.kind = "Ok"
FlushReturnedOk == res.op = "flush" /\ res.kind = "Ok"

\* The decode half of a round trip has come to its end: the reader reported
\* end of data or an error, or the writer got every byte and was finished, or
\* a write of the writer panicked.
DecodeEnded ==
    /\ gh.piped
    /\ \/ /\ kind = "DecoderReader"
          /\ pc = "idle"
          /\ res.op = "read"
          /\ res.kind # "Ok" \/ (res.n = 0 /\ intoLen > 0)
       \/ /\ kind = "DecoderWriter"
          /\ res.op = "finish"
          /\ todo = <<>>
       \/ /\ kind = "DecoderWriter"
          /\ res.op = "write"
          /\ res.kind = "Panic"

Decoded == IF kind = "DecoderReader" THEN got ELSE inner.data

\* C1: Round trip. Encoding S through an EncoderWriter (all of S written, then
\* finish) and decoding what reached the sink through a decode adapter yields
\* exactly S, for both raw modes, every buffer capacity and every chunking.
RoundTrip == DecodeEnded => (res.kind = "Ok" /\ Decoded = plain)

\* C2: When finish on a push adapter returns success, the engine has reached
\* stream-end, nothing is left pending inside it and the output buffer is
\* empty, whatever the buffer's capacity.
FinishComplete ==
    (FinishReturnedOk /\ kind \in Push)
        => (StreamEnded(stream) /\ stream.pend = <<>> /\ buf = <<>>)

\* C3: When flush on a push adapter returns success, the engine holds no
\* output it owes for the accepted input, and the sink was flushed after the
\* last byte was written to it.
FlushComplete ==
    (FlushReturnedOk /\ kind \in Push)
        => (stream.pend = <<>> /\ stream.held = <<>> /\ inner.flushed = Len(inner.data))

\* C4: Idempotent flush. A flush that directly follows a successful flush
\* which left nothing pending in the engine delivers no byte to the sink.
FlushIdempotent ==
    [][(/\ FlushReturnedOk
        /\ life = "live"
        /\ stream.pend = <<>>
        /\ stream.held = <<>>
        /\ res'.op = "flush"
        /\ res'.kind = "Ok") => inner'.data = inner.data]_vars

\* C5: While the sink never fails, what a push adapter has delivered to the
\* sink is a prefix of what the engine has produced: no byte twice.
SinkIsPrefix ==
    (kind \in Push /\ ~gh.sinkFailed) => IsPrefix(inner.data, gh.produced)

\* S written with one write call, then finish, on a fresh EncoderWriter.
OneShotEnd(w, f) == [n |-> w.n, data |-> f.sink.data]

OneShotFinish(w, c) == OneShotEnd(w, do_finish(w.s, w.into, c, w.sink, FALSE, FALSE))

OneShot(s, isRaw, c) ==
    OneShotFinish(Stream_write(EngineInit("Deflate", isRaw), s, "MZ_NO_FLUSH", <<>>, c,
                               Endpoint(<<>>), FALSE), c)

OneShotAgrees(o) == o.n = Len(plain) => inner.data = o.data

\* C6: Partial-buffer correctness. S written in chunks (each write offering what
\* the one before did not consume) and then finished delivers the same bytes
\* as S written with one call (which consumed it all) and then finished.
ChunkedSameAsOneShot ==
    (/\ kind = "EncoderWriter"
     /\ FinishReturnedOk
     /\ todo = <<>>
     /\ gh.flushes = 0
     /\ ~gh.sinkFailed)
        => OneShotAgrees(OneShot(plain, stream.raw, capacity))

\* C7: Tearing down a push adapter on which finish was never called runs the
\* finish sequence once, before the engine handle is released.
DropFinishes ==
    (/\ kind \in Push
     /\ life \in {"fields", "dropped"}
     /\ ~gh.finishCalled
     /\ ~gh.panicked) => gh.dropFinish = 1

HandleOnce ==
    /\ initCount = 1
    /\ life \in {"live", "closing", "unwinding", "fields", "dropped"}
    /\ endCount = IF life = "dropped" THEN 1 ELSE 0

HandleOnceWitness ==
    /\ life = "dropped"
    /\ endCount = 1
    /\ ~gh.finishCalled
    /\ gh.sinkFailed \/ gh.panicked

\* C10: Whenever the engine reports the data-corruption status to a call of a
\* decode adapter, that call returns a data-integrity error value.
CorruptIsError ==
    (gh.dataError /\ res.op \in {"read", "write", "flush", "finish"})
        => (res.kind = "Err" /\ res.err = "corrupt")

\* The source handed over nothing but bytes of a well-formed stream.
NoBadByte(s) == \A i \in 1..Len(s) : s[i] # BAD

ReadReturned == kind \in Pull /\ pc = "idle" /\ res.op = "read"

\* C11: Decoding a truncated stream through the pull adapter: the read call
\* that finds the source exhausted before the engine has reached stream-end
\* returns a data-integrity error, and no read call returns success with zero
\* bytes before the engine has signalled stream-end.
TruncatedIsError ==
    (ReadReturned /\ kind = "DecoderReader")
        => /\ (res.kind = "Ok" /\ res.n = 0) => StreamEnded(stream)
           /\ (gh.eof /\ ~StreamEnded(stream))
                  => (res.kind = "Err" /\ res.err = "corrupt")

TruncatedIsErrorWitness ==
    /\ ReadReturned
    /\ kind = "DecoderReader"
    /\ gh.eof
    /\ NoBadByte(gh.pulled)
    /\ got # <<>>
    /\ res.kind = "Err"
    /\ res.err = "corrupt"

\* C12: A read call with a non-empty caller buffer returns success with zero
\* bytes only if the engine has signalled stream-end or the source has
\* reported exhaustion; otherwise it keeps refilling and pumping.
NoEarlyZero ==
    (ReadReturned /\ intoLen > 0 /\ res.kind = "Ok" /\ res.n = 0)
        => (gh.ret = "MZ_STREAM_END" \/ (gh.eof /\ inner.data = <<>>))

NoEarlyZeroWitness ==
    /\ ReadReturned
    /\ intoLen > 0
    /\ res.kind = "Ok"
    /\ res.n = 0
    /\ gh.looped
    /\ gh.ret = "MZ_STREAM_END"

\* C13 as stated: once a read call has returned on the engine's stream-end,
\* every later read call returns at once with success and zero bytes: no
\* error, no panic, no further iteration, no further data.
AfterEndReadsZero ==
    [][(gh.endSeen /\ pc = "loop")
          => /\ pc' = "idle"
             /\ res'.kind = "Ok"
             /\ res'.n = 0
             /\ got' = got]_vars

\* C13, amended: once a read call has returned on the engine's stream-end,
\* every later read call returns at once and delivers no data: success with
\* zero bytes, unless the refill it makes because pos == cap fails, in which
\* case it returns the source's I/O error with the engine untouched.
AfterEndReadsZeroOrIoError ==
    [][(gh.endSeen /\ pc = "loop")
          => /\ pc' = "idle"
             /\ got' = got
             /\ \/ res'.kind = "Ok" /\ res'.n = 0
                \/ /\ res'.kind = "Err"
                   /\ res'.err = "io"
                   /\ pos = cap
                   /\ stream' = stream]_vars

AfterEndWitness ==
    /\ ReadReturned
    /\ gh.afterEnd
    /\ intoLen > 0
    /\ res.kind = "Ok"
    /\ res.n = 0
    /\ pos < cap

\* C14: A write call that finds undelivered bytes in the output buffer and
\* fails to write them to the sink returns the sink's error without stepping
\* the engine: the engine (its consumed-input and produced-output totals
\* included) is unchanged, none of the caller's input is consumed and the
\* undelivered bytes stay in the buffer.
FailedDrainStepsNothing ==
    [][(kind \in Push /\ life = "live" /\ res'.op = "write" /\ res'.kind = "Err")
          => /\ buf # <<>>
             /\ stream' = stream
             /\ res'.n = 0
             /\ todo' = todo
             /\ buf' = buf
             /\ inner' = inner]_vars

FailedDrainWitness ==
    /\ kind = "EncoderWriter"
    /\ res.op = "write"
    /\ res.kind = "Err"
    /\ buf # <<>>
    /\ todo # <<>>
    /\ stream.total_in > 0

\* C15: When the source returns an I/O error during a refill, read returns
\* that error without stepping the engine and leaves pos, cap, the staged
\* bytes and the source as they were, so a later read retries the refill; and
\* as long as the stream is not corrupt, every byte the engine has produced
\* has been returned to the caller (read goes round to a refill only after a
\* step that produced nothing).
RefillErrorKeepsAll ==
    /\ [][(kind \in Pull /\ pc = "loop" /\ pc' = "idle"
             /\ res'.kind = "Err" /\ res'.err = "io")
            => /\ pos = cap
               /\ stream' = stream
               /\ pos' = pos
               /\ cap' = cap
               /\ buf' = buf
               /\ inner' = inner
               /\ got' = got
               /\ gh'.fed = gh.fed]_vars
    /\ []((kind \in Pull /\ stream.phase # "failed") => Len(got) = stream.total_out)

RefillErrorWitness ==
    /\ ReadReturned
    /\ res.kind = "Err"
    /\ res.err = "io"
    /\ pos = cap
    /\ cap > 0
    /\ got # <<>>
    /\ inner.data # <<>>

\* The staged bytes the engine has not consumed yet: buf[pos..cap].
Unread == SubSeq(buf, pos + 1, cap)

\* C16: Across any sequence of read calls, the bytes the engine has consumed
\* are, in order, a prefix of the bytes the source returned, and what follows
\* that prefix is exactly the staged bytes in [pos, cap): no staged byte is
\* overwritten before the engine consumed it, none is skipped or fed twice.
FedIsPrefixOfPulled ==
    kind \in Pull
        => /\ IsPrefix(gh.fed, gh.pulled)
           /\ gh.fed \o Unread = gh.pulled
           /\ Len(gh.fed) = stream.total_in

FedIsPrefixWitness ==
    /\ ReadReturned
    /\ res.kind = "Ok"
    /\ Len(gh.pulled) > cap
    /\ 0 < pos
    /\ pos < cap

\* C17: In every reachable state of a pull adapter, before and after every
\* read call, successful or failed, 0 <= pos <= cap <= capacity of the
\* staging buffer.
CursorsInBounds ==
    kind \in Pull => (0 <= pos /\ pos <= cap /\ cap <= capacity)

CursorsWitness ==
    /\ ReadReturned
    /\ res.kind = "Err"
    /\ 0 < pos
    /\ pos < cap
    /\ cap = capacity

BufWithinCapacity ==
    /\ [](kind \in Push => Len(buf) <= capacity)
    /\ [][(kind \in Push /\ kind' = kind) => capacity' = capacity]_vars

BufWithinCapacityWitness ==
    /\ kind \in Push
    /\ res.op = "write"
    /\ res.kind = "Ok"
    /\ Len(buf) = capacity
    /\ stream.pend # <<>>

\* C20: Every read call terminates: an iteration of the loop that goes round
\* again has refilled the staging buffer, consumed input or advanced the
\* engine, so that the loop, left to a source of finitely many bytes, never
\* starts an iteration from the state the one before started from; this
\* includes an empty caller buffer and an engine step that neither consumes
\* nor produces.
ReadLoopAdvances == kind \in Pull => ~gh.spin

====
